---- MODULE Spec2Model ----
(***************************************************************************)
(* A model of the two stateful parts of saebr:                             *)
(*   - the page cache (src/cache.go): cache.get, cache.put and the         *)
(*     request handler cacheServer.ServeHTTP, run by concurrent requests;  *)
(*   - the chain maintainer (src/relink.go): server.relink, a Datastore    *)
(*     transaction that rewrites the Prev/Next keys of the blog posts.     *)
(* Time is counted in ticks of one minute, so cacheTTL (time.Minute) is 1.  *)
(***************************************************************************)
EXTENDS Integers, Sequences, FiniteSets, TLC

\* ------------------------------------------------------------------ bounds
MaxTime == 1        \* the clock runs over 0..MaxTime
MaxFetches == 1     \* content objects the fetchers produce in one behaviour
MaxLimit == 2       \* largest cache limit drawn in Init
MinLimit == 0       \* smallest cache limit drawn in Init
MaxEdits == 1       \* handleEditPost saves in one behaviour

\* --------------------------------------------------------------- constants
cacheTTL == 1       \* time.Minute, in ticks of one minute

Reqs == {"r1", "r2"}

\* Request paths are sequences of path segments ("/feed" is <<"feed">>); a
\* route pairs a path with the key its cacheServer was built with (<<>> is
\* the empty key, which makes ServeHTTP use the path).
Routes ==
    { [path |-> <<"a">>, key |-> <<>>],
      [path |-> <<"feed">>, key |-> <<"rss.xml">>],
      [path |-> <<"wp-login.php">>, key |-> <<>>] }

NoRoute == [path |-> <<>>, key |-> <<>>]

\* the requests that the route /{page} hands to its cacheServer when a page
\* and the three skipped names are asked for
SkipRoutes ==
    { [path |-> <<"a">>, key |-> <<>>],
      [path |-> <<"wp-login.php">>, key |-> <<>>],
      [path |-> <<"wlwmanifest.xml">>, key |-> <<>>],
      [path |-> <<"xmlrpc.php">>, key |-> <<>>] }

\* mutant: /wp-login.php is not in the list
skipSuffixesNoLogin == { <<"wlwmanifest.xml">>, <<"xmlrpc.php">> }

skipSuffixes == { <<"wp-login.php">>, <<"wlwmanifest.xml">>, <<"xmlrpc.php">> }

\* strings.HasSuffix on segment sequences
HasSuffix(p, suf) ==
    /\ Len(suf) <= Len(p)
    /\ SubSeq(p, Len(p) - Len(suf) + 1, Len(p)) = suf

shouldSkip(p) == \E suf \in skipSuffixes : HasSuffix(p, suf)

KeyOf(route) == IF route.key = <<>> THEN route.path ELSE route.key

Keys == { KeyOf(rt) : rt \in { x \in Routes : ~shouldSkip(x.path) } }

\* ---------------------------------------------------------------- contents
\* A content value is nil, the cache's notFound page, or an object made by a
\* fetcher (numbered in the order the fetchers make them).
NilContent == [kind |-> "nil", id |-> 0]
notFound == [kind |-> "notFound", id |-> 0]
Obj(n) == [kind |-> "page", id |-> n]

\* the (cacheEntry, bool) pair that cache.get returns
Entry(t, c) == [found |-> TRUE, fetched |-> t, content |-> c]
NoEntry == [found |-> FALSE, fetched |-> 0, content |-> NilContent]

\* ------------------------------------------------------------------- pages
\* The Page entities of the site, by key name.  A Prev or Next key is the
\* name of a page or Nil.
PageKeys == {"p1", "p2", "p3"}
Nil == "nil"
Links == PageKeys \cup {Nil}

\* Datastore orders keys of one kind and parent by name.
KeyOrder == <<"p1", "p2", "p3">>
Rank(k) == CHOOSE i \in 1..Len(KeyOrder) : KeyOrder[i] = k

\* The Created times the pages start with: p2 is the oldest, p1 and p3 were
\* created at the same time.
InitCreated == [k \in PageKeys |-> IF k = "p2" THEN 1 ELSE 2]

\* What keeps a page out of the chain when it starts outside it: p1 is a
\* draft, p2 is not a blog post, p3 is neither published nor a blog post.
OffPublished == [k \in PageKeys |-> k = "p2"]
OffBlog == [k \in PageKeys |-> k = "p1"]

\* the transactions that run server.relink
Txns == {"t1"}

\* the invocations of server.relink that may run at the same time
AllTxns == {"t1", "t2"}

\* RunInTransaction is called without MaxAttempts: three attempts
maxAttempts == 3

\* the requests that run server.handleEditPost, and the values time.Now()
\* takes in them
Edits == {"e1"}
EditTimes == {3}

\* two requests to handleEditPost at a time, and the values time.Now() takes
\* in them
AllEdits == {"e1", "e2"}
SaveTimes == {3, 4}

\* the pages the edit handler is asked to save: a published post and a draft
EditKeys == {"p1", "p3"}

NoPage == [Key |-> Nil, Title |-> Nil, Created |-> 0, LastModified |-> 0,
           Published |-> FALSE, Blog |-> FALSE, Prev |-> Nil, Next |-> Nil]

\* history record of a put: the entry and whether the fetch had failed
NoPut == [ent |-> NoEntry, err |-> FALSE, nil |-> FALSE]

\* history record of a request served from the cache: the entry it read was
\* the one in seen, the fetcher that made it had returned an error, and
\* had returned nil content
NoNote == [same |-> FALSE, err |-> FALSE, nil |-> FALSE]

\* ---------------------------------------------------------- sitePage.Render
\* The page objects: the package's notFoundPage and two pages that fetchers
\* have made.  NilPage is a sitePage whose page is nil.
notFoundPage == "notFoundPage"
PageObjs == {notFoundPage, "page1", "page2"}
NilPage == "nilPage"

\* concurrent calls of sitePage.Render
Calls == {"c1", "c2", "c3"}

\* what b.String() holds after pageTmpl.Execute: the whole page, or what had
\* been written when the execution failed
Empty == ""
Outputs == {Empty, "part", "html"}

NoResp == [code |-> 0, body |-> Empty]

VARIABLES
    limit,      \* cache.limit
    cache,      \* cache.cache: key -> entry (NoEntry when absent)
    mu,         \* cache.mu: [readers: set of requests, writer: set of requests]
    now,        \* the clock
    nobj,       \* number of content objects made so far
    pc,         \* where each request is in ServeHTTP
    route,      \* the route of each request
    ent,        \* the result of cache.get of each request
    raw,        \* the content the fetcher returned to each request
    cont,       \* cont of each request
    err,        \* err of each request (TRUE: non-nil)
    putEnt,     \* the entry each request passes to cache.put
    rendered,   \* the content each request rendered
    status,     \* "none", "teapot" (418) or "content"
    fetches,    \* fetcher invocations of the current lookup of each request
    puts,       \* cache.put calls of the current lookup of each request
    logged,     \* log lines of the current lookup of each request
    outcome,    \* the freshness test of each request: "none", "hit",
                \* "miss" (no entry) or "expired" (a stale entry)
    seen,       \* history: when the request started, the entry that a
                \* finished lookup of the same key had put, and whether
                \* the fetcher of that lookup had returned an error
    note,       \* history: how the request was served from the cache
    late,       \* the 10 second deadline of the request's ctx elapsed while
                \* its fetcher invocation was in progress
    store,      \* Datastore: key name -> Page entity
    tpc,        \* where each relink transaction is
    snap,       \* history: the store when the transaction started
    pages,      \* pages of each transaction (the slice the query filled)
    upd,        \* upd of each transaction (indexes from 1)
    muts,       \* the entities each transaction has passed to tx.Put
    txPuts,     \* number of tx.Put calls of each transaction
    result,     \* what relink returned: "none", "ok" or an error
    settled,    \* history: a relink has committed and nothing has written
                \* the store since
    pre,        \* history: settled, and whether the chain was correct, when
                \* each transaction started
    attempt,    \* executions of the body in each invocation of relink
    dirty,      \* a write that conflicts with the transaction has landed
                \* since it started
    epc,        \* where each handleEditPost is
    epage,      \* page of each handleEditPost
    nedits,     \* number of saves so far
    raced,      \* history: the invocations of relink that had run their
                \* query and had pages to write when a save landed that set
                \* Created and changed what the query returns
    render,     \* Page.render of each page object: the sync.Once is "new",
                \* "running" (a call is inside Do) or "done"
    fullHTML,   \* Page.fullHTML of each page object
    rpc,        \* where each call of sitePage.Render is
    sp,         \* sp.page of each call
    resp,       \* what each call wrote to its ResponseWriter
    execs       \* history: executions of the page template on each page
                \* object

cvars == <<limit, cache, mu, now, nobj, pc, route, ent, raw, cont, err,
           putEnt,
           rendered, status, fetches, puts, logged, outcome, seen, note, late>>

evars == <<epc, epage, nedits>>

svars == <<render, fullHTML, rpc, sp, resp, execs>>

rvars == <<store, tpc, snap, pages, upd, muts, txPuts, result, settled, pre,
           attempt, dirty, raced, evars, svars>>

vars == <<cvars, rvars>>

Size(c) == Cardinality({ k \in Keys : c[k].found })

\* no page object has been rendered
RenderInit ==
    /\ render = [o \in PageObjs |-> "new"]
    /\ fullHTML = [o \in PageObjs |-> Empty]
    /\ rpc = [c \in Calls |-> "idle"]
    /\ sp = [c \in Calls |-> NilPage]
    /\ resp = [c \in Calls |-> NoResp]
    /\ execs = [o \in PageObjs |-> 0]

CacheInit ==
    /\ limit \in MinLimit..MaxLimit
    /\ cache = [k \in Keys |-> NoEntry]
    /\ mu = [readers |-> {}, writer |-> {}]
    /\ now = 0
    /\ nobj = 0
    /\ pc = [r \in Reqs |-> "idle"]
    /\ route = [r \in Reqs |-> NoRoute]
    /\ ent = [r \in Reqs |-> NoEntry]
    /\ raw = [r \in Reqs |-> NilContent]
    /\ cont = [r \in Reqs |-> NilContent]
    /\ err = [r \in Reqs |-> FALSE]
    /\ putEnt = [r \in Reqs |-> NoEntry]
    /\ rendered = [r \in Reqs |-> NilContent]
    /\ status = [r \in Reqs |-> "none"]
    /\ fetches = [r \in Reqs |-> 0]
    /\ puts = [r \in Reqs |-> 0]
    /\ logged = [r \in Reqs |-> 0]
    /\ outcome = [r \in Reqs |-> "none"]
    /\ seen = [r \in Reqs |-> NoPut]
    /\ note = [r \in Reqs |-> NoNote]
    /\ late = [r \in Reqs |-> FALSE]
    /\ RenderInit

\* The pages before any relink: p1, p2, p3 exist, any of them may be a
\* published blog post, and their Prev and Next keys are arbitrary.
Page(k, member, prev, next) ==
    [Key |-> k, Title |-> k, Created |-> InitCreated[k],
     LastModified |-> InitCreated[k],
     Published |-> member \/ OffPublished[k],
     Blog |-> member \/ OffBlog[k],
     Prev |-> prev, Next |-> next]

NoPre == [settled |-> FALSE, correct |-> FALSE]

TxnInit ==
    /\ tpc = [t \in AllTxns |-> "idle"]
    /\ snap = [t \in AllTxns |-> [k \in PageKeys |-> NoPage]]
    /\ pages = [t \in AllTxns |-> <<>>]
    /\ upd = [t \in AllTxns |-> {}]
    /\ muts = [t \in AllTxns |-> {}]
    /\ txPuts = [t \in AllTxns |-> 0]
    /\ result = [t \in AllTxns |-> "none"]
    /\ settled = FALSE
    /\ pre = [t \in AllTxns |-> NoPre]
    /\ attempt = [t \in AllTxns |-> 0]
    /\ dirty = [t \in AllTxns |-> FALSE]
    /\ raced = {}
    /\ epc = [e \in AllEdits |-> "idle"]
    /\ epage = [e \in AllEdits |-> NoPage]
    /\ nedits = 0

RelinkInit ==
    /\ \E M \in SUBSET PageKeys, pv \in [PageKeys -> Links],
          nx \in [PageKeys -> Links] :
          store = [k \in PageKeys |-> Page(k, k \in M, pv[k], nx[k])]
    /\ TxnInit

\* the store while only the cache is at work, and the cache while only
\* relink is
StoreIdle ==
    /\ store = [k \in PageKeys |-> Page(k, TRUE, Nil, Nil)]
    /\ TxnInit

CacheIdle == CacheInit /\ limit = MaxLimit

Init == CacheInit /\ StoreIdle

\* The other variables of a request, unchanged by a step of request r that
\* only moves it on.
CacheState == <<limit, cache, mu, now, nobj>>

\* request q has finished a lookup of key k that fetched and put an entry
Stored(q, k) ==
    pc[q] = "done" /\ outcome[q] \in {"miss", "expired"} /\ KeyOf(route[q]) = k

\* ServeHTTP up to the cache lookup: the skip test and the choice of the key.
Start(r, rt) ==
    /\ pc[r] = "idle"
    /\ route' = [route EXCEPT ![r] = rt]
    /\ IF shouldSkip(rt.path)
          THEN /\ status' = [status EXCEPT ![r] = "teapot"]
               /\ pc' = [pc EXCEPT ![r] = "done"]
          ELSE /\ status' = status
               /\ pc' = [pc EXCEPT ![r] = "get"]
    /\ seen' = [seen EXCEPT ![r] =
                  IF \E q \in Reqs \ {r} : Stored(q, KeyOf(rt))
                     THEN LET q == CHOOSE q \in Reqs \ {r} : Stored(q, KeyOf(rt))
                          IN [ent |-> putEnt[q], err |-> err[q],
                              nil |-> raw[q] = NilContent]
                     ELSE NoPut]
    /\ UNCHANGED <<CacheState, ent, raw, cont, err, putEnt, rendered, fetches,
                   puts, logged, outcome, note>>
    /\ UNCHANGED <<late, rvars>>

\* cache.get: c.mu.RLock()
GetRLock(r) ==
    /\ pc[r] = "get"
    /\ mu.writer = {}
    /\ mu' = [mu EXCEPT !.readers = @ \cup {r}]
    /\ pc' = [pc EXCEPT ![r] = "rlocked"]
    /\ UNCHANGED <<limit, cache, now, nobj, route, ent, raw, cont, err, putEnt,
                   rendered, status, fetches, puts, logged, outcome, seen, note>>
    /\ UNCHANGED <<late, rvars>>

\* mutant: the read lock is kept after the read
GetReadKeepLock(r) ==
    /\ pc[r] = "rlocked"
    /\ ent' = [ent EXCEPT ![r] = cache[KeyOf(route[r])]]
    /\ pc' = [pc EXCEPT ![r] = "check"]
    /\ UNCHANGED <<limit, cache, mu, now, nobj, route, raw, cont, err, putEnt,
                   rendered, status, fetches, puts, logged, outcome, seen, note>>
    /\ UNCHANGED <<late, rvars>>

\* cache.get: ent, ok := c.cache[page]; c.mu.RUnlock()
GetRead(r) ==
    /\ pc[r] = "rlocked"
    /\ ent' = [ent EXCEPT ![r] = cache[KeyOf(route[r])]]
    /\ mu' = [mu EXCEPT !.readers = @ \ {r}]
    /\ pc' = [pc EXCEPT ![r] = "check"]
    /\ UNCHANGED <<limit, cache, now, nobj, route, raw, cont, err, putEnt,
                   rendered, status, fetches, puts, logged, outcome, seen, note>>
    /\ UNCHANGED <<late, rvars>>

\* mutant: the TTL is not added to the fetch time
FreshNoTTL(e, t) == e.fetched > t

\* mutant: an entry is still served when exactly cacheTTL old
FreshInclusive(e, t) == e.fetched + cacheTTL >= t

\* ent.fetched.Add(cacheTTL).After(time.Now())
Fresh(e, t) == e.fetched + cacheTTL > t

\* request q has a fetcher invocation for key k in progress
Fetching(q, k) == pc[q] = "fetching" /\ KeyOf(route[q]) = k

\* The freshness test: a fresh entry is rendered, otherwise the fetcher is
\* called.
CheckBody(r) ==
    /\ pc[r] = "check"
    /\ IF ent[r].found /\ Fresh(ent[r], now)
          THEN /\ rendered' = [rendered EXCEPT ![r] = ent[r].content]
               /\ status' = [status EXCEPT ![r] = "content"]
               /\ pc' = [pc EXCEPT ![r] = "done"]
               /\ outcome' = [outcome EXCEPT ![r] = "hit"]
               /\ note' = [note EXCEPT ![r] =
                             IF seen[r].ent.found /\ ent[r] = seen[r].ent
                                THEN [same |-> TRUE, err |-> seen[r].err,
                                      nil |-> seen[r].nil]
                                ELSE NoNote]
               /\ UNCHANGED fetches
          ELSE /\ fetches' = [fetches EXCEPT ![r] = @ + 1]
               /\ pc' = [pc EXCEPT ![r] = "fetching"]
               /\ outcome' = [outcome EXCEPT ![r] =
                                IF ent[r].found THEN "expired" ELSE "miss"]
               /\ UNCHANGED <<rendered, status, note>>
    /\ ent' = [ent EXCEPT ![r] = NoEntry]
    /\ seen' = [seen EXCEPT ![r] = NoPut]
    /\ UNCHANGED <<CacheState, route, raw, cont, err, putEnt, puts, logged>>
    /\ UNCHANGED <<late, rvars>>

\* mutant: the cache is bypassed, every lookup calls the fetcher
CheckAlwaysFetch(r) ==
    /\ pc[r] = "check"
    /\ fetches' = [fetches EXCEPT ![r] = @ + 1]
    /\ pc' = [pc EXCEPT ![r] = "fetching"]
    /\ outcome' = [outcome EXCEPT ![r] =
                     IF ent[r].found THEN "expired" ELSE "miss"]
    /\ ent' = [ent EXCEPT ![r] = NoEntry]
    /\ seen' = [seen EXCEPT ![r] = NoPut]
    /\ UNCHANGED <<CacheState, route, raw, cont, err, putEnt, puts, logged,
                   rendered, status, note>>
    /\ UNCHANGED <<late, rvars>>

\* mutant: single flight, a lookup waits while another request is fetching
\* its key
CheckCoalesce(r) ==
    /\ \A q \in Reqs \ {r} : ~Fetching(q, KeyOf(route[r]))
    /\ CheckBody(r)

Check(r) == CheckBody(r)

\* mutant: a nil content is stored and rendered as it is
ContentForKeepNil(c, e) == c

\* What ServeHTTP stores and renders for the fetcher's result (c, e).
ContentFor(c, e) == IF c = NilContent THEN notFound ELSE c

\* The fetcher returns (c, e): c is nil or a new content object, e tells
\* whether the error is non-nil.  ServeHTTP logs the error, replaces a nil
\* content by the notFound page and builds the entry with time.Now().
FetchReturn(r, fresh, e) ==
    /\ pc[r] = "fetching"
    /\ fresh => nobj < MaxFetches
    /\ LET c == IF fresh THEN Obj(nobj + 1) ELSE NilContent
       IN /\ raw' = [raw EXCEPT ![r] = c]
          /\ cont' = [cont EXCEPT ![r] = ContentFor(c, e)]
          /\ putEnt' = [putEnt EXCEPT ![r] = Entry(now, ContentFor(c, e))]
    /\ nobj' = IF fresh THEN nobj + 1 ELSE nobj
    /\ err' = [err EXCEPT ![r] = e]
    /\ logged' = [logged EXCEPT ![r] = IF e THEN @ + 1 ELSE @]
    /\ pc' = [pc EXCEPT ![r] = "put"]
    /\ UNCHANGED <<limit, cache, mu, now, route, ent, rendered, status,
                   fetches, puts, outcome, seen, note>>
    /\ UNCHANGED <<late, rvars>>

\* mutant: put takes the lock without waiting for the readers
PutLockIgnoreReaders(r) ==
    /\ pc[r] = "put"
    /\ mu.writer = {}
    /\ mu' = [mu EXCEPT !.writer = {r}]
    /\ pc' = [pc EXCEPT ![r] = "wlocked"]
    /\ UNCHANGED <<limit, cache, now, nobj, route, ent, raw, cont, err, putEnt,
                   rendered, status, fetches, puts, logged, outcome, seen, note>>
    /\ UNCHANGED <<late, rvars>>

\* cache.put: c.mu.Lock()
PutLock(r) ==
    /\ pc[r] = "put"
    /\ mu.writer = {} /\ mu.readers = {}
    /\ mu' = [mu EXCEPT !.writer = {r}]
    /\ pc' = [pc EXCEPT ![r] = "wlocked"]
    /\ UNCHANGED <<limit, cache, now, nobj, route, ent, raw, cont, err, putEnt,
                   rendered, status, fetches, puts, logged, outcome, seen, note>>
    /\ UNCHANGED <<late, rvars>>

Resident(c) == { k \in Keys : c[k].found }

\* The eviction loop of cache.put: the keys come in any order, and the loop
\* deletes the key at hand unless len(c.cache) < c.limit, where it stops.
\* The result is the set of maps the loop can leave.
RECURSIVE Evict(_, _, _)
Evict(c, lim, remaining) ==
    IF remaining = {} \/ Size(c) < lim
       THEN {c}
       ELSE UNION { Evict([c EXCEPT ![k] = NoEntry], lim, remaining \ {k})
                    : k \in remaining }

\* mutant: put updates the content of a resident entry in place and keeps
\* its fetch time
PutStoreInPlace(r) ==
    /\ pc[r] = "wlocked"
    /\ LET k == KeyOf(route[r])
       IN cache' = [cache EXCEPT ![k] =
                      IF cache[k].found
                         THEN [cache[k] EXCEPT !.content = putEnt[r].content]
                         ELSE putEnt[r]]
    /\ mu' = [mu EXCEPT !.writer = {}]
    /\ puts' = [puts EXCEPT ![r] = @ + 1]
    /\ rendered' = [rendered EXCEPT ![r] = cont[r]]
    /\ status' = [status EXCEPT ![r] = "content"]
    /\ pc' = [pc EXCEPT ![r] = "done"]
    /\ UNCHANGED <<limit, now, nobj, route, ent, raw, cont, err, putEnt, fetches,
                   logged, outcome, seen, note>>
    /\ UNCHANGED <<late, rvars>>

\* cache.put under the lock: evict, insert, c.mu.Unlock(); then ServeHTTP
\* renders cont.
PutStore(r) ==
    /\ pc[r] = "wlocked"
    /\ \E c \in Evict(cache, limit, Resident(cache)) :
          cache' = [c EXCEPT ![KeyOf(route[r])] = putEnt[r]]
    /\ mu' = [mu EXCEPT !.writer = {}]
    /\ puts' = [puts EXCEPT ![r] = @ + 1]
    /\ rendered' = [rendered EXCEPT ![r] = cont[r]]
    /\ status' = [status EXCEPT ![r] = "content"]
    /\ pc' = [pc EXCEPT ![r] = "done"]
    /\ UNCHANGED <<limit, now, nobj, route, ent, raw, cont, err, putEnt, fetches,
                   logged, outcome, seen, note>>
    /\ UNCHANGED <<late, rvars>>

\* ServeHTTP has returned; the request slot is free for the next request.
Return(r) ==
    /\ pc[r] = "done"
    /\ pc' = [pc EXCEPT ![r] = "idle"]
    /\ route' = [route EXCEPT ![r] = NoRoute]
    /\ ent' = [ent EXCEPT ![r] = NoEntry]
    /\ raw' = [raw EXCEPT ![r] = NilContent]
    /\ cont' = [cont EXCEPT ![r] = NilContent]
    /\ err' = [err EXCEPT ![r] = FALSE]
    /\ putEnt' = [putEnt EXCEPT ![r] = NoEntry]
    /\ rendered' = [rendered EXCEPT ![r] = NilContent]
    /\ status' = [status EXCEPT ![r] = "none"]
    /\ fetches' = [fetches EXCEPT ![r] = 0]
    /\ puts' = [puts EXCEPT ![r] = 0]
    /\ logged' = [logged EXCEPT ![r] = 0]
    /\ outcome' = [outcome EXCEPT ![r] = "none"]
    /\ seen' = [seen EXCEPT ![r] = NoPut]
    /\ note' = [note EXCEPT ![r] = NoNote]
    /\ late' = [late EXCEPT ![r] = FALSE]
    /\ UNCHANGED <<CacheState>>
    /\ UNCHANGED rvars

Tick ==
    /\ now < MaxTime
    /\ now' = now + 1
    /\ UNCHANGED <<limit, cache, mu, nobj, pc, route, ent, raw, cont, err, putEnt,
                   rendered, status, fetches, puts, logged, outcome, seen, note>>
    /\ UNCHANGED <<late, rvars>>

\* context.WithTimeout(r.Context(), 10*time.Second): the deadline elapses
\* while the fetcher is running.  ServeHTTP does not watch ctx; what happens
\* next is up to the fetcher.
Deadline(r) ==
    /\ pc[r] = "fetching"
    /\ ~late[r]
    /\ late' = [late EXCEPT ![r] = TRUE]
    /\ UNCHANGED <<limit, cache, mu, now, nobj, pc, route, ent, raw, cont, err,
                   putEnt, rendered, status, fetches, puts, logged, outcome,
                   seen, note>>
    /\ UNCHANGED rvars

Next ==
    \/ Tick
    \/ \E r \in Reqs, rt \in Routes : Start(r, rt)
    \/ \E r \in Reqs : GetRLock(r)
    \/ \E r \in Reqs : GetRead(r)
    \/ \E r \in Reqs : Check(r)
    \/ \E r \in Reqs, fresh \in BOOLEAN, e \in BOOLEAN : FetchReturn(r, fresh, e)
    \/ \E r \in Reqs : PutLock(r)
    \/ \E r \in Reqs : PutStore(r)
    \/ \E r \in Reqs : Return(r)

\* the lookups of a page among requests for the skipped names
SkipNext ==
    \/ Tick
    \/ \E r \in Reqs, rt \in SkipRoutes : Start(r, rt)
    \/ \E r \in Reqs : GetRLock(r)
    \/ \E r \in Reqs : GetRead(r)
    \/ \E r \in Reqs : Check(r)
    \/ \E r \in Reqs, fresh \in BOOLEAN, e \in BOOLEAN : FetchReturn(r, fresh, e)
    \/ \E r \in Reqs : PutLock(r)
    \/ \E r \in Reqs : PutStore(r)
    \/ \E r \in Reqs : Return(r)

\* the lookups with the deadline of their fetches
TimeoutNext ==
    \/ Next
    \/ \E r \in Reqs : Deadline(r)

\* ---------------------------------------------------------- sitePage.Render
\* Render is called on a sitePage; a nil page stands for notFoundPage.
RenderCall(c, p) ==
    /\ rpc[c] = "idle"
    /\ sp' = [sp EXCEPT ![c] = IF p = NilPage THEN notFoundPage ELSE p]
    /\ rpc' = [rpc EXCEPT ![c] = "do"]
    /\ UNCHANGED <<render, fullHTML, resp, execs>>
    /\ UNCHANGED <<store, tpc, snap, pages, upd, muts, txPuts, result, settled,
                   pre, attempt, dirty, raced, evars>>
    /\ UNCHANGED cvars

\* mutant: a flag tested without the lock, in place of sync.Once
OnceDoNoLock(c) ==
    /\ rpc[c] = "do"
    /\ IF render[sp[c]] = "done"
          THEN /\ rpc' = [rpc EXCEPT ![c] = "after"]
               /\ render' = render
          ELSE /\ rpc' = [rpc EXCEPT ![c] = "exec"]
               /\ render' = [render EXCEPT ![sp[c]] = "running"]
    /\ UNCHANGED <<fullHTML, sp, resp, execs>>
    /\ UNCHANGED <<store, tpc, snap, pages, upd, muts, txPuts, result, settled,
                   pre, attempt, dirty, raced, evars>>
    /\ UNCHANGED cvars

\* sp.page.render.Do: a call that finds the Once done goes on; the first
\* call runs the function; a call that comes while the function is running
\* waits for it.
OnceDo(c) ==
    /\ rpc[c] = "do"
    /\ render[sp[c]] # "running"
    /\ IF render[sp[c]] = "done"
          THEN /\ rpc' = [rpc EXCEPT ![c] = "after"]
               /\ render' = render
          ELSE /\ rpc' = [rpc EXCEPT ![c] = "exec"]
               /\ render' = [render EXCEPT ![sp[c]] = "running"]
    /\ UNCHANGED <<fullHTML, sp, resp, execs>>
    /\ UNCHANGED <<store, tpc, snap, pages, upd, muts, txPuts, result, settled,
                   pre, attempt, dirty, raced, evars>>
    /\ UNCHANGED cvars

\* The function given to Do: pageTmpl.Execute writes out into the builder
\* and returns an error (e) or nil, and fullHTML is set to what the builder
\* holds; then the Once is done.
Execute(c, out, e) ==
    /\ rpc[c] = "exec"
    /\ e \/ out = "html"
    /\ ~e \/ out # "html"
    /\ fullHTML' = [fullHTML EXCEPT ![sp[c]] = out]
    /\ execs' = [execs EXCEPT ![sp[c]] = @ + 1]
    /\ render' = [render EXCEPT ![sp[c]] = "done"]
    /\ rpc' = [rpc EXCEPT ![c] = "after"]
    /\ UNCHANGED <<sp, resp>>
    /\ UNCHANGED <<store, tpc, snap, pages, upd, muts, txPuts, result, settled,
                   pre, attempt, dirty, raced, evars>>
    /\ UNCHANGED cvars

\* the answer for page object o with the memoized html
Answer(o, html) ==
    IF html = Empty
       THEN [code |-> 500, body |-> Empty]
       ELSE IF o = notFoundPage
               THEN [code |-> 404, body |-> html]
               ELSE [code |-> 200, body |-> html]

\* lines 94-105: the answer is written from fullHTML
Respond(c) ==
    /\ rpc[c] = "after"
    /\ resp' = [resp EXCEPT ![c] = Answer(sp[c], fullHTML[sp[c]])]
    /\ rpc' = [rpc EXCEPT ![c] = "done"]
    /\ UNCHANGED <<render, fullHTML, sp, execs>>
    /\ UNCHANGED <<store, tpc, snap, pages, upd, muts, txPuts, result, settled,
                   pre, attempt, dirty, raced, evars>>
    /\ UNCHANGED cvars

\* Render has returned
RenderReturn(c) ==
    /\ rpc[c] = "done"
    /\ rpc' = [rpc EXCEPT ![c] = "idle"]
    /\ sp' = [sp EXCEPT ![c] = NilPage]
    /\ resp' = [resp EXCEPT ![c] = NoResp]
    /\ UNCHANGED <<render, fullHTML, execs>>
    /\ UNCHANGED <<store, tpc, snap, pages, upd, muts, txPuts, result, settled,
                   pre, attempt, dirty, raced, evars>>
    /\ UNCHANGED cvars

RenderNext ==
    \/ \E c \in Calls, p \in PageObjs \cup {NilPage} : RenderCall(c, p)
    \/ \E c \in Calls : OnceDo(c)
    \/ \E c \in Calls, out \in Outputs, e \in BOOLEAN : Execute(c, out, e)
    \/ \E c \in Calls : Respond(c)
    \/ \E c \in Calls : RenderReturn(c)

\* ------------------------------------------------------------------ relink
\* mutant: the query leaves out the Published filter
MembersAnyBlog(st) == { k \in PageKeys : st[k].Blog }

\* the query of relink: Published = true, Blog = true
Members(st) == { k \in PageKeys : st[k].Published /\ st[k].Blog }

\* Order("Created"): ascending by Created, equal values by key
Before(st, a, b) ==
    \/ st[a].Created < st[b].Created
    \/ st[a].Created = st[b].Created /\ Rank(a) < Rank(b)

RECURSIVE Sorted(_, _)
Sorted(st, S) ==
    IF S = {}
       THEN <<>>
       ELSE LET m == CHOOSE x \in S : \A y \in S \ {x} : Before(st, x, y)
            IN <<m>> \o Sorted(st, S \ {m})

\* mutant: a projection query, which loads the keys and leaves the other
\* properties of the pages at their zero values
QueryProjected(st) ==
    LET ks == Sorted(st, Members(st))
    IN [i \in 1..Len(ks) |->
          [st[ks[i]] EXCEPT !.Title = Nil, !.LastModified = 0]]

\* GetAll(ctx, q, &pages)
Query(st) ==
    LET ks == Sorted(st, Members(st))
    IN [i \in 1..Len(ks) |-> st[ks[i]]]

\* (*datastore.Key).Equal, which takes nil keys
KeyEqual(a, b) == a = b

\* The body works on w = [pages, upd].
\* mutant: the first page is always written back
FixFirstAlways(w) ==
    [pages |-> [w.pages EXCEPT ![1].Prev = Nil], upd |-> w.upd \cup {1}]

\* mutant: the Prev key is cleared but the page is not marked for writing
FixFirstNoMark(w) ==
    [pages |-> [w.pages EXCEPT ![1].Prev = Nil], upd |-> w.upd]

\* First page must have Prev = nil
FixFirst(w) ==
    IF w.pages[1].Prev # Nil
       THEN [pages |-> [w.pages EXCEPT ![1].Prev = Nil], upd |-> w.upd \cup {1}]
       ELSE w

\* mutant: the Next key of the last page is left as it is
FixLastSkip(w) == w

\* Last page must have Next = nil
FixLast(w) ==
    LET N == Len(w.pages)
    IN IF w.pages[N].Next # Nil
          THEN [pages |-> [w.pages EXCEPT ![N].Next = Nil],
                upd |-> w.upd \cup {N}]
          ELSE w

\* one round of the loop over pages[:N-1], i counted from 1
FixPair(w, i) ==
    LET w1 == IF ~KeyEqual(w.pages[i + 1].Prev, w.pages[i].Key)
                 THEN [pages |-> [w.pages EXCEPT ![i + 1].Prev = w.pages[i].Key],
                       upd |-> w.upd \cup {i + 1}]
                 ELSE w
    IN IF ~KeyEqual(w1.pages[i].Next, w1.pages[i + 1].Key)
          THEN [pages |-> [w1.pages EXCEPT ![i].Next = w1.pages[i + 1].Key],
                upd |-> w1.upd \cup {i}]
          ELSE w1

RECURSIVE FixMiddle(_, _)
FixMiddle(w, i) ==
    IF i > Len(w.pages) - 1 THEN w ELSE FixMiddle(FixPair(w, i), i + 1)

\* lines 42-65 for a non-empty query result
Relinked(ps) == FixMiddle(FixLast(FixFirst([pages |-> ps, upd |-> {}])), 1)

\* the chain is the one the order of the query asks for
Pred(st, k) ==
    LET B == { b \in Members(st) : Before(st, b, k) }
    IN IF B = {} THEN Nil
       ELSE CHOOSE b \in B : \A c \in B \ {b} : Before(st, c, b)

Succ(st, k) ==
    LET A == { a \in Members(st) : Before(st, k, a) }
    IN IF A = {} THEN Nil
       ELSE CHOOSE a \in A : \A c \in A \ {a} : Before(st, a, c)

ChainCorrect(st) ==
    \A k \in Members(st) :
        st[k].Prev = Pred(st, k) /\ st[k].Next = Succ(st, k)

\* mutant: an empty query result is an error, as it is in fetchLatest
ReturnEmptyErr == "errNoPages"

\* what the body returns when the query finds no page: nil
ReturnEmpty == "ok"

\* RunInTransaction starts the transaction and the body runs the query and
\* computes the keys.  With no page the body returns at once.
RelinkQuery(t) ==
    /\ tpc[t] \in {"idle", "retry"}
    /\ attempt' = [attempt EXCEPT ![t] = @ + 1]
    /\ dirty' = [dirty EXCEPT ![t] = FALSE]
    /\ snap' = [snap EXCEPT ![t] = store]
    /\ pre' = [pre EXCEPT ![t] = [settled |-> settled,
                                  correct |-> ChainCorrect(store)]]
    /\ LET ps == Query(store)
       IN IF Len(ps) = 0
             THEN /\ pages' = [pages EXCEPT ![t] = ps]
                  /\ upd' = [upd EXCEPT ![t] = {}]
                  /\ result' = [result EXCEPT ![t] = ReturnEmpty]
                  /\ tpc' = [tpc EXCEPT ![t] = "commit"]
             ELSE /\ pages' = [pages EXCEPT ![t] = Relinked(ps).pages]
                  /\ upd' = [upd EXCEPT ![t] = Relinked(ps).upd]
                  /\ result' = result
                  /\ tpc' = [tpc EXCEPT ![t] = "puts"]
    /\ UNCHANGED <<store, muts, txPuts, settled, raced, evars>>
    /\ UNCHANGED <<cvars, svars>>

\* GetAll fails: the body returns the error and the transaction is rolled
\* back.
RelinkQueryFail(t) ==
    /\ tpc[t] \in {"idle", "retry"}
    /\ attempt' = [attempt EXCEPT ![t] = @ + 1]
    /\ dirty' = [dirty EXCEPT ![t] = FALSE]
    /\ snap' = [snap EXCEPT ![t] = store]
    /\ pre' = [pre EXCEPT ![t] = [settled |-> settled,
                                  correct |-> ChainCorrect(store)]]
    /\ result' = [result EXCEPT ![t] = "errQuery"]
    /\ tpc' = [tpc EXCEPT ![t] = "done"]
    /\ UNCHANGED <<store, pages, upd, muts, txPuts, settled, raced, evars>>
    /\ UNCHANGED <<cvars, svars>>

\* mutant: every page of the query is written back
RelinkPutsAll(t) ==
    /\ tpc[t] = "puts"
    /\ muts' = [muts EXCEPT ![t] = { pages[t][i] : i \in 1..Len(pages[t]) }]
    /\ txPuts' = [txPuts EXCEPT ![t] = Len(pages[t])]
    /\ result' = [result EXCEPT ![t] = "ok"]
    /\ tpc' = [tpc EXCEPT ![t] = "commit"]
    /\ UNCHANGED <<store, snap, pages, upd, settled, pre, attempt, dirty,
                   raced, evars>>
    /\ UNCHANGED <<cvars, svars>>

\* Put all changed pages: every tx.Put succeeds and the body returns nil.
RelinkPuts(t) ==
    /\ tpc[t] = "puts"
    /\ muts' = [muts EXCEPT ![t] = { pages[t][i] : i \in upd[t] }]
    /\ txPuts' = [txPuts EXCEPT ![t] = Cardinality(upd[t])]
    /\ result' = [result EXCEPT ![t] = "ok"]
    /\ tpc' = [tpc EXCEPT ![t] = "commit"]
    /\ UNCHANGED <<store, snap, pages, upd, settled, pre, attempt, dirty,
                   raced, evars>>
    /\ UNCHANGED <<cvars, svars>>

\* the store with the entities es written
Written(st, es) ==
    [k \in PageKeys |->
        IF \E e \in es : e.Key = k
           THEN CHOOSE e \in es : e.Key = k
           ELSE st[k]]

\* mutant: the pages are put with client.Put, outside the transaction, so
\* the puts made before the failing one are stored
RelinkPutFailPartial(t, n) ==
    /\ tpc[t] = "puts"
    /\ n < Cardinality(upd[t])
    /\ \E S \in SUBSET upd[t] :
          /\ Cardinality(S) = n
          /\ store' = Written(store, { pages[t][i] : i \in S })
    /\ txPuts' = [txPuts EXCEPT ![t] = n + 1]
    /\ result' = [result EXCEPT ![t] = "errPut"]
    /\ tpc' = [tpc EXCEPT ![t] = "done"]
    /\ UNCHANGED <<snap, pages, upd, muts, settled, pre, attempt,
                   dirty, raced, evars>>
    /\ UNCHANGED <<cvars, svars>>

\* A tx.Put fails after n of the puts: the body returns the error and the
\* transaction is rolled back.
RelinkPutFail(t, n) ==
    /\ tpc[t] = "puts"
    /\ n < Cardinality(upd[t])
    /\ txPuts' = [txPuts EXCEPT ![t] = n + 1]
    /\ result' = [result EXCEPT ![t] = "errPut"]
    /\ tpc' = [tpc EXCEPT ![t] = "done"]
    /\ UNCHANGED <<store, snap, pages, upd, muts, settled, pre, attempt,
                   dirty, raced, evars>>
    /\ UNCHANGED <<cvars, svars>>

\* transaction u has run its query and has not ended
InFlight(u) == tpc[u] \in {"puts", "commit"}

\* mutant: the commit does not look for conflicting writes
RelinkCommitBlind(t) ==
    /\ tpc[t] = "commit"
    /\ IF result[t] = "ok"
          THEN /\ store' = Written(store, muts[t])
               /\ settled' = TRUE
               /\ dirty' = [u \in AllTxns |->
                              dirty[u] \/ (u # t /\ InFlight(u) /\ muts[t] # {})]
          ELSE UNCHANGED <<store, settled, dirty>>
    /\ tpc' = [tpc EXCEPT ![t] = "done"]
    /\ UNCHANGED <<snap, pages, upd, muts, txPuts, result, pre, attempt,
                   raced, evars>>
    /\ UNCHANGED <<cvars, svars>>

\* mutant: a commit does not invalidate the other transactions in flight
RelinkCommitSilent(t) ==
    /\ tpc[t] = "commit"
    /\ IF result[t] = "ok"
          THEN /\ ~dirty[t] \/ muts[t] = {}
               /\ store' = Written(store, muts[t])
               /\ settled' = TRUE
               /\ dirty' = dirty
          ELSE UNCHANGED <<store, settled, dirty>>
    /\ tpc' = [tpc EXCEPT ![t] = "done"]
    /\ UNCHANGED <<snap, pages, upd, muts, txPuts, result, pre, attempt,
                   raced, evars>>
    /\ UNCHANGED <<cvars, svars>>

\* The body returned nil: the transaction commits its puts, unless a
\* conflicting write has landed since it started (a transaction with nothing
\* to write may commit all the same).  The pages it writes are pages every
\* other transaction in flight has read.  When the body returned an error
\* the transaction is rolled back.
RelinkCommit(t) ==
    /\ tpc[t] = "commit"
    /\ IF result[t] = "ok"
          THEN /\ ~dirty[t] \/ muts[t] = {}
               /\ store' = Written(store, muts[t])
               /\ settled' = TRUE
               /\ dirty' = [u \in AllTxns |->
                              dirty[u] \/ (u # t /\ InFlight(u) /\ muts[t] # {})]
          ELSE UNCHANGED <<store, settled, dirty>>
    /\ tpc' = [tpc EXCEPT ![t] = "done"]
    /\ UNCHANGED <<snap, pages, upd, muts, txPuts, result, pre, attempt,
                   raced, evars>>
    /\ UNCHANGED <<cvars, svars>>

\* mutant: the first lost commit ends the invocation
RelinkConflictNoRetry(t) ==
    /\ tpc[t] = "commit"
    /\ result[t] = "ok"
    /\ dirty[t]
    /\ tpc' = [tpc EXCEPT ![t] = "done"]
    /\ result' = [result EXCEPT ![t] = "errConcurrent"]
    /\ UNCHANGED <<pages, upd, muts, txPuts>>
    /\ UNCHANGED <<store, snap, settled, pre, attempt, dirty, raced, evars>>
    /\ UNCHANGED <<cvars, svars>>

\* The commit fails on a conflicting write.  RunInTransaction runs the body
\* again with a new transaction, and after maxAttempts lost commits it
\* returns ErrConcurrentTransaction, which relink returns.
RelinkConflict(t) ==
    /\ tpc[t] = "commit"
    /\ result[t] = "ok"
    /\ dirty[t]
    /\ IF attempt[t] < maxAttempts
          THEN /\ tpc' = [tpc EXCEPT ![t] = "retry"]
               /\ result' = [result EXCEPT ![t] = "none"]
               /\ pages' = [pages EXCEPT ![t] = <<>>]
               /\ upd' = [upd EXCEPT ![t] = {}]
               /\ muts' = [muts EXCEPT ![t] = {}]
               /\ txPuts' = [txPuts EXCEPT ![t] = 0]
          ELSE /\ tpc' = [tpc EXCEPT ![t] = "done"]
               /\ result' = [result EXCEPT ![t] = "errConcurrent"]
               /\ UNCHANGED <<pages, upd, muts, txPuts>>
    /\ UNCHANGED <<store, snap, settled, pre, attempt, dirty, raced, evars>>
    /\ UNCHANGED <<cvars, svars>>

\* Commit fails: RunInTransaction returns the error and nothing is written.
RelinkCommitFail(t) ==
    /\ tpc[t] = "commit"
    /\ result[t] = "ok"
    /\ result' = [result EXCEPT ![t] = "errCommit"]
    /\ tpc' = [tpc EXCEPT ![t] = "done"]
    /\ UNCHANGED <<store, snap, pages, upd, muts, txPuts, settled, pre,
                   attempt, dirty, raced, evars>>
    /\ UNCHANGED <<cvars, svars>>

\* relink has returned; the next relink may start
RelinkReturn(t) ==
    /\ tpc[t] = "done"
    /\ tpc' = [tpc EXCEPT ![t] = "idle"]
    /\ snap' = [snap EXCEPT ![t] = [k \in PageKeys |-> NoPage]]
    /\ pages' = [pages EXCEPT ![t] = <<>>]
    /\ upd' = [upd EXCEPT ![t] = {}]
    /\ muts' = [muts EXCEPT ![t] = {}]
    /\ txPuts' = [txPuts EXCEPT ![t] = 0]
    /\ result' = [result EXCEPT ![t] = "none"]
    /\ pre' = [pre EXCEPT ![t] = NoPre]
    /\ attempt' = [attempt EXCEPT ![t] = 0]
    /\ dirty' = [dirty EXCEPT ![t] = FALSE]
    /\ raced' = raced \ {t}
    /\ UNCHANGED <<store, settled, evars>>
    /\ UNCHANGED <<cvars, svars>>

\* ------------------------------------------------------------- fetchLatest
\* mutant: Order("Created"), the oldest post first
fetchLatestOldest(st) ==
    { k \in Members(st) : \A j \in Members(st) : st[k].Created <= st[j].Created }

\* The pages the query of fetchLatest may return: Published = true,
\* Blog = true, Order("-Created"), Limit(1).  Which of several pages with
\* the same Created comes first is up to the store.
fetchLatest(st) ==
    { k \in Members(st) : \A j \in Members(st) : st[j].Created <= st[k].Created }

\* Page.Latest
Latest(p) == p.Next = Nil

\* ---------------------------------------------------------- handleEditPost
\* a page saved as a draft and never published: Created is the zero time
Draft(k, prev, next) ==
    [Key |-> k, Title |-> k, Created |-> 0, LastModified |-> 1,
     Published |-> FALSE, Blog |-> TRUE, Prev |-> prev, Next |-> next]

\* The pages while relink and handleEditPost run together: p2 and p1 are
\* published blog posts, chained or not yet chained, and p3 is a draft.
ChainInit ==
    /\ \E chained \in BOOLEAN :
          store = [k \in PageKeys |->
                     IF k = "p3" THEN Draft(k, Nil, Nil)
                     ELSE IF k = "p1"
                             THEN Page(k, TRUE, IF chained THEN "p2" ELSE Nil, Nil)
                             ELSE Page(k, TRUE, Nil, IF chained THEN "p1" ELSE Nil)]
    /\ TxnInit

\* s.client.Get(ctx, key, page), outside any transaction.  (When Get fails
\* the handler answers 500 and has changed nothing.)
EditGet(e, k) ==
    /\ epc[e] = "idle"
    /\ nedits < MaxEdits
    /\ epage' = [epage EXCEPT ![e] = store[k]]
    /\ epc' = [epc EXCEPT ![e] = "got"]
    /\ UNCHANGED <<store, tpc, snap, pages, upd, muts, txPuts, result, settled,
                   pre, attempt, dirty, raced, nedits>>
    /\ UNCHANGED <<cvars, svars>>

\* lines 205-215: the form values go into the page that Get filled
Edited(pg, pub, blog, tm) ==
    [pg EXCEPT !.Published = pub, !.Blog = blog, !.LastModified = tm,
               !.Created = IF pg.Created = 0 /\ pub THEN tm ELSE pg.Created]

\* mutant: the query is run outside the transaction, so a page that enters
\* its result is no conflict
AffectsMembersOnly(u, pg) == pg.Key \in Members(snap[u])

\* the save of page pg changes what the query of transaction u returns, or
\* an entity it has read
Affects(u, pg) ==
    \/ pg.Key \in Members(snap[u])
    \/ pg.Published /\ pg.Blog

\* s.client.Put(ctx, key, page): the whole entity is written.  The write
\* conflicts with every transaction in flight whose reads it changes, and,
\* where the store detects conflicts by entity group, with the others too.
EditPut(e, pub, blog, tm, group) ==
    /\ epc[e] = "got"
    /\ LET pg == Edited(epage[e], pub, blog, tm)
       IN /\ store' = [store EXCEPT ![pg.Key] = pg]
          /\ dirty' = [u \in AllTxns |->
                         \/ dirty[u]
                         \/ InFlight(u) /\ (Affects(u, pg) \/ group)]
          /\ raced' = IF pg.Created # store[pg.Key].Created
                         THEN raced \cup { u \in AllTxns :
                                             /\ InFlight(u) /\ upd[u] # {}
                                             /\ Affects(u, pg) }
                         ELSE raced
    /\ settled' = FALSE
    /\ nedits' = nedits + 1
    /\ epc' = [epc EXCEPT ![e] = "idle"]
    /\ epage' = [epage EXCEPT ![e] = NoPage]
    /\ UNCHANGED <<tpc, snap, pages, upd, muts, txPuts, result, pre, attempt>>
    /\ UNCHANGED <<cvars, svars>>

\* Put fails: the handler answers 500 and nothing is written
EditPutFail(e) ==
    /\ epc[e] = "got"
    /\ epc' = [epc EXCEPT ![e] = "idle"]
    /\ epage' = [epage EXCEPT ![e] = NoPage]
    /\ UNCHANGED <<store, tpc, snap, pages, upd, muts, txPuts, result, settled,
                   pre, attempt, dirty, raced, nedits>>
    /\ UNCHANGED <<cvars, svars>>

ChainNext ==
    \/ \E t \in AllTxns : RelinkQuery(t)
    \/ \E t \in AllTxns : RelinkQueryFail(t)
    \/ \E t \in AllTxns : RelinkPuts(t)
    \/ \E t \in AllTxns, n \in 0..Cardinality(PageKeys) : RelinkPutFail(t, n)
    \/ \E t \in AllTxns : RelinkCommit(t)
    \/ \E t \in AllTxns : RelinkCommitFail(t)
    \/ \E t \in AllTxns : RelinkConflict(t)
    \/ \E t \in AllTxns : RelinkReturn(t)
    \/ \E e \in Edits, k \in EditKeys : EditGet(e, k)
    \/ \E e \in Edits, pub \in BOOLEAN, blog \in BOOLEAN, tm \in EditTimes,
          group \in BOOLEAN : EditPut(e, pub, blog, tm, group)
    \/ \E e \in Edits : EditPutFail(e)

\* the edit handler alone, two requests at a time
EditNext ==
    \/ \E e \in AllEdits, k \in PageKeys : EditGet(e, k)
    \/ \E e \in AllEdits, pub \in BOOLEAN, blog \in BOOLEAN, tm \in SaveTimes :
          EditPut(e, pub, blog, tm, FALSE)
    \/ \E e \in AllEdits : EditPutFail(e)

RelinkNext ==
    \/ \E t \in Txns : RelinkQuery(t)
    \/ \E t \in Txns : RelinkQueryFail(t)
    \/ \E t \in Txns : RelinkPuts(t)
    \/ \E t \in Txns, n \in 0..Cardinality(PageKeys) : RelinkPutFail(t, n)
    \/ \E t \in Txns : RelinkCommit(t)
    \/ \E t \in Txns : RelinkCommitFail(t)
    \/ \E t \in Txns : RelinkReturn(t)

\* ------------------------------------------------------------- the claims
\* request r takes its freshness test in this step
CheckStep(r) == pc[r] = "check" /\ pc'[r] # "check"

\* request r moves in this step
Moves(r) == pc'[r] # pc[r]

\* C1: cache hit.  When the entry that ServeHTTP read is resident with
\* now - fetched < TTL, the request renders exactly that entry's content,
\* does not invoke the fetcher, and no step of the lookup changes the map.
C1_CacheHit ==
    [][\A r \in Reqs :
         /\ (CheckStep(r) /\ ent[r].found /\ now - ent[r].fetched < cacheTTL)
               => /\ pc'[r] = "done"
                  /\ status'[r] = "content"
                  /\ rendered'[r] = ent[r].content
                  /\ fetches'[r] = 0 /\ puts'[r] = 0
                  /\ nobj' = nobj
                  /\ cache' = cache
         /\ (Moves(r) /\ pc[r] \in {"idle", "get", "rlocked"}) => cache' = cache
      ]_vars

C1_Witness ==
    \E r \in Reqs :
        /\ pc[r] = "done" /\ outcome[r] = "hit"
        /\ status[r] = "content" /\ rendered[r].kind = "page"
        /\ fetches[r] = 0 /\ puts[r] = 0

\* C2: expiry triggers refetch.  A lookup that finds no entry, or an entry
\* with now - fetched >= TTL, invokes the fetcher exactly once.
C2_ExpiryRefetch ==
    /\ [](\A r \in Reqs :
            /\ fetches[r] <= 1
            /\ outcome[r] \in {"miss", "expired"} => fetches[r] = 1)
    /\ [][\A r \in Reqs :
            (CheckStep(r)
               /\ (~ent[r].found \/ now - ent[r].fetched >= cacheTTL))
               => /\ pc'[r] = "fetching"
                  /\ outcome'[r] \in {"miss", "expired"}
                  /\ fetches'[r] = 1
         ]_vars

C2_Witness ==
    \E r \in Reqs :
        /\ pc[r] = "done" /\ outcome[r] = "expired"
        /\ putEnt[r].fetched = cacheTTL
        /\ fetches[r] = 1 /\ puts[r] = 1

\* C3: bounded size.  The number of resident entries never exceeds the
\* configured capacity, for every capacity CacheMaxSize accepts.
C3_BoundedSize == Size(cache) <= limit

\* C4: sentinel on failure.  Whenever the fetcher returns an error (whatever
\* the content) or nil content, the lookup stores and renders the notFound
\* page.
C4_SentinelOnFailure ==
    \A r \in Reqs :
        (pc[r] = "done" /\ outcome[r] \in {"miss", "expired"}
           /\ (err[r] \/ raw[r] = NilContent))
        => /\ putEnt[r].content = notFound
           /\ rendered[r] = notFound

C6_Original ==
    [][\A r \in Reqs :
         (CheckStep(r) /\ seen[r].ent.found
            /\ now - seen[r].ent.fetched < cacheTTL)
            => /\ outcome'[r] = "hit"
               /\ fetches'[r] = 0
               /\ rendered'[r] = seen[r].ent.content
      ]_vars

\* C6 as amended: the same, provided the entry stored at t0 is still the
\* resident entry of k when the later lookup reads the cache (no put evicted
\* or replaced it in between).
C6_TTLFreshness ==
    [][\A r \in Reqs :
         (CheckStep(r) /\ seen[r].ent.found
            /\ ent[r] = seen[r].ent
            /\ now - seen[r].ent.fetched < cacheTTL)
            => /\ outcome'[r] = "hit"
               /\ fetches'[r] = 0
               /\ rendered'[r] = seen[r].ent.content
      ]_vars

C6_Witness ==
    \E r \in Reqs :
        /\ pc[r] = "done" /\ outcome[r] = "hit"
        /\ note[r].same /\ ~note[r].err
        /\ rendered[r].kind = "page"
        /\ fetches[r] = 0

\* C7: no single flight.  A lookup that has to fetch is never held back by
\* another lookup's fetch of the same key, and every lookup that called the
\* fetcher goes on to put its own entry under its key, exactly once.
C7_NoSingleFlight ==
    /\ [](\A r \in Reqs :
            /\ pc[r] = "check" => ENABLED Check(r)
            /\ pc[r] \in {"fetching", "put", "wlocked"}
                  => fetches[r] = 1 /\ puts[r] = 0
            /\ (pc[r] = "done" /\ outcome[r] \in {"miss", "expired"})
                  => fetches[r] = 1 /\ puts[r] = 1)
    /\ [][\A r \in Reqs :
            (pc[r] = "wlocked" /\ Moves(r))
               => /\ puts'[r] = 1
                  /\ cache'[KeyOf(route[r])] = putEnt[r]
         ]_vars

\* two lookups of the same key with a fetcher invocation in progress
C7_Witness ==
    \E r, q \in Reqs :
        /\ r # q
        /\ KeyOf(route[r]) = KeyOf(route[q])
        /\ pc[r] = "fetching" /\ pc[q] = "fetching"

\* C8: chain repair postcondition.  After relink has committed, whatever the
\* Prev and Next keys were, the published blog posts in the order of the
\* query have P[1].Prev = nil, P[N].Next = nil, and P[i].Next = P[i+1].Key,
\* P[i+1].Prev = P[i].Key in between.
C8_ChainRepaired ==
    \A t \in Txns :
        (tpc[t] = "done" /\ result[t] = "ok")
        => LET P == Query(store)
               N == Len(P)
           IN N > 0 =>
                /\ P[1].Prev = Nil
                /\ P[N].Next = Nil
                /\ \A i \in 1..(N - 1) :
                      P[i].Next = P[i + 1].Key /\ P[i + 1].Prev = P[i].Key

\* a committed relink of three posts whose keys held a cycle, or of two
\* posts with a key that pointed out of the chain
C8_Witness ==
    \E t \in Txns :
        /\ tpc[t] = "done" /\ result[t] = "ok"
        /\ \/ /\ Len(pages[t]) = 3 /\ txPuts[t] = 3
              /\ \E k \in PageKeys : snap[t][k].Next = k
           \/ /\ Len(pages[t]) = 2
              /\ \E k \in Members(snap[t]) :
                    snap[t][k].Prev \in PageKeys \ Members(snap[t])
        /\ store # snap[t]

\* C9: chain repair idempotence.  A relink that runs after a committed relink
\* with no write in between, or on a chain that is already correct, issues no
\* Put and leaves the store unchanged.
C9_Idempotent ==
    \A t \in Txns :
        (tpc[t] \in {"commit", "done"} /\ result[t] = "ok"
           /\ (pre[t].settled \/ pre[t].correct))
        => /\ txPuts[t] = 0
           /\ muts[t] = {}
           /\ store = snap[t]

C9_Witness ==
    \E t \in Txns :
        /\ tpc[t] = "done" /\ result[t] = "ok"
        /\ pre[t].settled
        /\ Len(pages[t]) = 3
        /\ txPuts[t] = 0 /\ store = snap[t]

\* C10: empty chain.  When the query returns no page, relink succeeds and
\* performs no write, whatever other pages exist.
C10_EmptyChain ==
    \A t \in Txns :
        (tpc[t] \in {"commit", "done"} /\ Members(snap[t]) = {}
           /\ result[t] \notin {"errQuery", "errCommit"})
        => /\ result[t] = "ok"
           /\ txPuts[t] = 0
           /\ muts[t] = {}
           /\ store = snap[t]

C10_Witness ==
    \E t \in Txns :
        /\ tpc[t] = "done" /\ result[t] = "ok"
        /\ Len(pages[t]) = 0
        /\ \E k \in PageKeys : ~store[k].Published /\ store[k].Next # Nil
        /\ \E k \in PageKeys : ~store[k].Blog /\ store[k].Prev # Nil
        /\ store = snap[t]

\* C11: single-member chain.  When exactly one published blog post exists,
\* after a successful relink its Prev and Next are both nil, whatever they
\* were, and the page is written if and only if one of them was not nil.
C11_SingleMember ==
    \A t \in Txns :
        (tpc[t] = "done" /\ result[t] = "ok"
           /\ Cardinality(Members(snap[t])) = 1)
        => LET k == CHOOSE k \in PageKeys : k \in Members(snap[t])
               wrong == snap[t][k].Prev # Nil \/ snap[t][k].Next # Nil
           IN /\ store[k].Prev = Nil /\ store[k].Next = Nil
              /\ \A f \in {"Key", "Title", "Created", "LastModified",
                             "Published", "Blog"} : store[k][f] = snap[t][k][f]
              /\ (txPuts[t] = 1) <=> wrong
              /\ (txPuts[t] = 0) <=> ~wrong
              /\ (\E e \in muts[t] : e.Key = k) <=> wrong

\* a lone post that pointed at itself and at a page outside the chain has
\* been written with both keys nil
C11_Witness ==
    \E t \in Txns, k \in PageKeys :
        /\ tpc[t] = "done" /\ result[t] = "ok"
        /\ Members(snap[t]) = {k}
        /\ snap[t][k].Prev = k /\ snap[t][k].Next \in PageKeys \ {k}
        /\ txPuts[t] = 1
        /\ store[k].Prev = Nil /\ store[k].Next = Nil

\* the commit of transaction t succeeds in this step
Commits(t) == tpc[t] = "commit" /\ tpc'[t] = "done" /\ result'[t] = "ok"

\* the commit of transaction t is lost to a conflicting write in this step
Loses(t) ==
    /\ tpc[t] = "commit" /\ result[t] = "ok"
    /\ tpc'[t] = "retry" \/ result'[t] = "errConcurrent"

C14_NonMembersUntouched ==
    /\ [](\A t \in AllTxns : \A e \in muts[t] :
            snap[t][e.Key].Published /\ snap[t][e.Key].Blog)
    /\ [][\A t \in AllTxns :
            tpc'[t] # tpc[t]
            => \A k \in PageKeys :
                  ~(store[k].Published /\ store[k].Blog) => store'[k] = store[k]
         ]_vars

\* a relink has committed its writes next to an unpublished page that still
\* carries a Prev or Next key
C14_Witness ==
    \E t \in AllTxns, k \in PageKeys :
        /\ tpc[t] = "done" /\ result[t] = "ok" /\ txPuts[t] >= 1
        /\ ~store[k].Published
        /\ store[k].Prev # Nil \/ store[k].Next # Nil
        /\ store[k] = snap[t][k]
        /\ store # snap[t]

\* C15: exclusive ownership of the chain fields.  Only the commit of a relink
\* changes the stored Prev or Next of a page; a save of handleEditPost leaves
\* them as the last committed relink wrote them.
C15_ChainFieldsOwned ==
    [][\A k \in PageKeys :
         (store'[k].Prev # store[k].Prev \/ store'[k].Next # store[k].Next)
         => \E t \in AllTxns : Commits(t)
      ]_vars

\* C16: map access exclusion.  The critical section of a put never overlaps
\* with that of a get or of another put, the map changes only inside a put's
\* critical section, and a get is never held back by other gets.
C16_MapExclusion ==
    /\ [](/\ \A r, q \in Reqs :
                (r # q /\ pc[r] = "wlocked") => pc[q] \notin {"wlocked", "rlocked"}
          /\ \A r \in Reqs :
                /\ pc[r] = "wlocked" <=> r \in mu.writer
                /\ pc[r] = "rlocked" <=> r \in mu.readers
                /\ (pc[r] = "get" /\ mu.writer = {}) => ENABLED GetRLock(r))
    /\ [][cache' # cache => \E r \in Reqs : pc[r] = "wlocked" /\ Moves(r)]_vars

\* two gets inside their critical sections at the same time
C16_Witness ==
    /\ \A r \in Reqs : pc[r] = "rlocked"
    /\ mu.readers = Reqs
    /\ \E k \in Keys : cache[k].found

\* C17: the lock is not held across the fetch.  A lookup with a fetcher
\* invocation in progress holds neither the read lock nor the write lock, so
\* it holds back no step of another lookup, and a lookup of another key with
\* a fresh entry is served while the fetch is still in progress.
C17_NoLockAcrossFetch ==
    /\ [](\A q \in Reqs :
            pc[q] = "fetching"
            => /\ q \notin mu.readers /\ q \notin mu.writer
               /\ \A r \in Reqs \ {q} :
                     /\ pc[r] = "get" => ENABLED GetRLock(r)
                     /\ pc[r] = "rlocked" => ENABLED GetRead(r)
                     /\ pc[r] = "check" => ENABLED Check(r)
                     /\ pc[r] = "put" => ENABLED PutLock(r))
    /\ [][\A q \in Reqs : \A r \in Reqs \ {q} :
            (/\ pc[q] = "fetching" /\ CheckStep(r)
             /\ KeyOf(route[r]) # KeyOf(route[q])
             /\ ent[r].found /\ Fresh(ent[r], now))
            => /\ pc'[r] = "done" /\ rendered'[r] = ent[r].content
               /\ pc'[q] = "fetching"
         ]_vars

\* a lookup of one key is fetching and a lookup of the other key has been
\* served a page from the cache
C17_Witness ==
    \E q \in Reqs : \E r \in Reqs \ {q} :
        /\ pc[q] = "fetching" /\ fetches[q] = 1
        /\ pc[r] = "done" /\ outcome[r] = "hit"
        /\ KeyOf(route[r]) # KeyOf(route[q])
        /\ mu = [readers |-> {}, writer |-> {}]

\* C19: store on success, wholesale replacement.  When the fetcher returns
\* non-nil content the lookup builds an entry with exactly that content and
\* the time after the return, puts it and renders the content; when a put
\* returns, its key holds exactly the entry put; and an entry of the map is
\* only ever removed or replaced by the whole entry of a put.
C19_WholesaleReplacement ==
    [][/\ \A r \in Reqs :
            /\ (pc[r] = "fetching" /\ Moves(r) /\ raw'[r] # NilContent)
                  => /\ putEnt'[r] = Entry(now, raw'[r])
                     /\ cont'[r] = raw'[r]
            /\ (pc[r] = "wlocked" /\ Moves(r))
                  => /\ cache'[KeyOf(route[r])] = putEnt[r]
                     /\ rendered'[r] = putEnt[r].content
                     /\ raw[r] # NilContent => rendered'[r] = raw[r]
       /\ \A k \in Keys :
            \/ cache'[k] = cache[k]
            \/ cache'[k] = NoEntry
            \/ \E r \in Reqs :
                  /\ pc[r] = "wlocked" /\ Moves(r)
                  /\ KeyOf(route[r]) = k /\ cache'[k] = putEnt[r]
      ]_vars

\* a put has replaced a stale entry by a page fetched at time cacheTTL
C19_Witness ==
    \E r \in Reqs :
        /\ pc[r] = "done" /\ outcome[r] = "expired"
        /\ raw[r].kind = "page" /\ rendered[r] = raw[r]
        /\ cache[KeyOf(route[r])] = Entry(cacheTTL, raw[r])

\* C20: eviction only when needed.  A put removes the entry of another key
\* only when its own key is not resident and the cache is at capacity.
C20_EvictionOnlyWhenNeeded ==
    [][\A r \in Reqs :
         (pc[r] = "wlocked" /\ Moves(r))
         => \A k \in Keys \ {KeyOf(route[r])} :
               (cache[k].found /\ ~cache'[k].found)
               => /\ ~cache[KeyOf(route[r])].found
                  /\ Size(cache) >= limit
      ]_vars

\* the pages of the query whose stored Prev or Next is not the key that the
\* order of the query asks for
Wrong(st) ==
    { k \in Members(st) : st[k].Prev # Pred(st, k) \/ st[k].Next # Succ(st, k) }

\* C21: minimal write set.  When the body of relink has returned nil, the
\* pages it passed to tx.Put are exactly the pages of the query whose stored
\* Prev or Next was wrong, each passed once, and each carries both its right
\* Prev and its right Next.
C21_MinimalWriteSet ==
    \A t \in Txns :
        (tpc[t] \in {"commit", "done"} /\ result[t] \in {"ok", "errCommit"})
        => /\ { e.Key : e \in muts[t] } = Wrong(snap[t])
           /\ txPuts[t] = Cardinality(Wrong(snap[t]))
           /\ Cardinality(muts[t]) = txPuts[t]
           /\ \A e \in muts[t] :
                 /\ e.Prev = Pred(snap[t], e.Key)
                 /\ e.Next = Succ(snap[t], e.Key)

\* of three posts one had both keys right, one had one wrong key and one had
\* both wrong: two pages were written
C21_Witness ==
    \E t \in Txns :
        /\ tpc[t] = "done" /\ result[t] = "ok"
        /\ Len(pages[t]) = 3 /\ txPuts[t] = 2
        /\ \E k \in PageKeys :
              /\ snap[t][k].Prev # Pred(snap[t], k)
              /\ snap[t][k].Next # Succ(snap[t], k)
        /\ \E k \in PageKeys :
              /\ snap[t][k].Prev = Pred(snap[t], k)
              /\ snap[t][k].Next # Succ(snap[t], k)
        /\ store # snap[t]

\* C18: fetch timeout.  When the 10 second deadline elapses before the
\* fetcher has returned, the lookup stores the notFound page under the key
\* and renders it.
C18_FetchTimeout ==
    \A r \in Reqs :
        (late[r] /\ pc[r] \in {"put", "wlocked", "done"})
        => /\ putEnt[r].content = notFound
           /\ pc[r] = "done" => rendered[r] = notFound

\* the properties of a page other than Prev and Next
OtherFields == {"Key", "Title", "Created", "LastModified", "Published", "Blog"}

\* C22: relink changes only link fields.  Every page that relink passes to
\* tx.Put carries, in its fields other than Prev and Next, the values the
\* query read; a successful commit leaves those fields of every stored page
\* as they were, and as its query read them for the pages of the chain; the
\* published blog posts and their order by Created are the same after the
\* commit as before.
C22_OnlyLinkFields ==
    /\ [](\A t \in AllTxns : \A e \in muts[t] : \A f \in OtherFields :
            e[f] = snap[t][e.Key][f])
    /\ [][\A t \in AllTxns :
            Commits(t)
            => /\ \A k \in PageKeys : \A f \in OtherFields :
                     /\ store'[k][f] = store[k][f]
                     /\ (muts[t] # {} /\ k \in Members(snap[t]))
                           => store'[k][f] = snap[t][k][f]
               /\ Members(store') = Members(store)
               /\ Sorted(store', Members(store')) = Sorted(store, Members(store))
         ]_vars

\* a relink has committed new keys for two pages whose other fields are as
\* they were
C22_Witness ==
    \E t \in AllTxns :
        /\ tpc[t] = "done" /\ result[t] = "ok" /\ txPuts[t] = 2
        /\ \E k \in PageKeys : store[k].Prev # snap[t][k].Prev
        /\ \E k \in PageKeys : store[k].Next # snap[t][k].Next
        /\ \A k \in PageKeys : \A f \in OtherFields : store[k][f] = snap[t][k][f]

\* C23: non-members carry nil links.  When a relink has committed, with no
\* conflicting write since its query and no write since its commit, every
\* stored page that is unpublished or not a blog post has Prev = nil and
\* Next = nil.
C23_NonMembersNullLinks ==
    (/\ settled
     /\ \E t \in AllTxns : tpc[t] = "done" /\ result[t] = "ok" /\ ~dirty[t])
    => \A k \in PageKeys \ Members(store) :
          store[k].Prev = Nil /\ store[k].Next = Nil

\* the errors relink returns
Errors == {"errQuery", "errPut", "errConcurrent", "errCommit"}

\* C24: all-or-nothing repair.  An error of the query, of a tx.Put or of the
\* commit is what relink returns; no step of a relink other than a successful
\* commit changes the store, and a successful commit stores all the pages of
\* its write set in one step.
C24_AllOrNothing ==
    /\ [](\A t \in AllTxns : result[t] \in Errors => tpc[t] = "done")
    /\ [][\A t \in AllTxns :
            /\ (tpc'[t] # tpc[t] /\ ~Commits(t)) => store' = store
            /\ Commits(t)
               => /\ store' = Written(store, muts[t])
                  /\ { e.Key : e \in muts[t] } = Wrong(snap[t])
         ]_vars

\* the second of two tx.Put calls failed: relink returned the error and the
\* first page is not stored either
C24_Witness ==
    \E t \in AllTxns :
        /\ tpc[t] = "done" /\ result[t] = "errPut"
        /\ Cardinality(upd[t]) = 2 /\ txPuts[t] = 2
        /\ store = snap[t]
        /\ Wrong(store) # {}

C26_Original ==
    [][\A t \in AllTxns : Commits(t) => ChainCorrect(store')]_vars

\* C26 as amended: the keys a relink computes are those that the order of
\* its query asks for; when it commits pages, or commits with no conflicting
\* save since its query, the stored keys are those that the stored Created
\* values ask for at that moment; a relink that has nothing to write may
\* commit after a save that landed since its query, and leaves the store as
\* the save left it.
C26_SnapshotConsistency ==
    [][\A t \in AllTxns :
         Commits(t)
         => /\ ChainCorrect(Written(snap[t], muts[t]))
            /\ (muts[t] # {} \/ ~dirty[t]) => ChainCorrect(store')
            /\ muts[t] = {} => store' = store
      ]_vars

\* a save published p3 after the query of a relink; the commit was lost, the
\* body ran again and committed the keys that link p3 in
C26_Witness ==
    \E t \in AllTxns :
        /\ tpc[t] = "done" /\ result[t] = "ok"
        /\ attempt[t] = 2 /\ txPuts[t] = 2 /\ ~dirty[t]
        /\ nedits = 1
        /\ "p3" \in Members(store) /\ "p3" \in Members(snap[t])
        /\ ChainCorrect(store)

C28_CreatedSetOnce ==
    [][\A k \in PageKeys :
         /\ store[k].Created # 0 => store'[k].Created = store[k].Created
         /\ store'[k].Created # store[k].Created
               => store[k].Created = 0 /\ store'[k].Published
      ]_vars

\* C29: timestamp monotonicity per key.  No step replaces the entry of a key
\* by an entry with an earlier fetch time.
C29_TimestampMonotone ==
    [][\A k \in Keys :
         (cache[k].found /\ cache'[k].found)
         => cache'[k].fetched >= cache[k].fetched
      ]_vars

\* C30: skipped paths leave the cache alone.  A request whose path ends in
\* /wp-login.php, /wlwmanifest.xml or /xmlrpc.php is answered 418 in one step
\* in which the fetcher is not called, the cache is not read and no lock is
\* taken, and no step of the request changes the cache.
C30_SkippedPaths ==
    /\ [](\A r \in Reqs :
            (/\ pc[r] # "idle"
             /\ route[r].path[Len(route[r].path)]
                   \in {"wp-login.php", "wlwmanifest.xml", "xmlrpc.php"})
            => /\ pc[r] = "done" /\ status[r] = "teapot"
               /\ fetches[r] = 0 /\ puts[r] = 0 /\ logged[r] = 0
               /\ ent[r] = NoEntry /\ putEnt[r] = NoEntry
               /\ rendered[r] = NilContent
               /\ r \notin mu.readers /\ r \notin mu.writer)
    /\ [][\A r \in Reqs :
            (/\ pc'[r] # pc[r]
             /\ \/ pc[r] = "done" /\ status[r] = "teapot"
                \/ pc'[r] = "done" /\ status'[r] = "teapot")
            => cache' = cache /\ mu' = mu /\ nobj' = nobj
         ]_vars

\* each of the three names has been answered 418 next to a resident entry
C30_Witness ==
    /\ Size(cache) >= 1
    /\ \E r \in Reqs :
          /\ pc[r] = "done" /\ status[r] = "teapot"
          /\ route[r].path = <<"xmlrpc.php">>
    /\ \E r \in Reqs :
          /\ pc[r] = "done" /\ status[r] = "teapot"
          /\ route[r].path \in {<<"wp-login.php">>, <<"wlwmanifest.xml">>}

\* C31: render once per page object.  The page template is executed at most
\* once on each page object, notFoundPage included, and by one call at a
\* time; a call is past Do, or has returned, only when that execution has
\* finished; fullHTML is set by that execution only; and every call answers
\* from the memoized fullHTML: 500 when it is empty, as a failed execution
\* can leave it, else the html, with 404 for notFoundPage.
C31_RenderOnce ==
    /\ [](\A o \in PageObjs :
            /\ execs[o] <= 1
            /\ execs[o] = 1 <=> render[o] = "done"
            /\ Cardinality({ c \in Calls : rpc[c] = "exec" /\ sp[c] = o }) <= 1
            /\ render[o] # "done" => fullHTML[o] = Empty)
    /\ [](\A c \in Calls :
            /\ rpc[c] \in {"after", "done"}
                  => render[sp[c]] = "done" /\ execs[sp[c]] = 1
            /\ rpc[c] = "done"
                  => /\ resp[c].body = fullHTML[sp[c]]
                     /\ resp[c].code = 500 <=> fullHTML[sp[c]] = Empty
                     /\ resp[c].code = 404
                           <=> (fullHTML[sp[c]] # Empty /\ sp[c] = notFoundPage)
                     /\ \A d \in Calls :
                           (rpc[d] = "done" /\ sp[d] = sp[c]) => resp[d] = resp[c])
    /\ [][\A o \in PageObjs :
            fullHTML'[o] # fullHTML[o] => execs[o] = 0 /\ execs'[o] = 1
         ]_vars

\* two calls have answered 404 from the one execution on notFoundPage, and a
\* third has answered 500 from the failed execution on a page
C31_Witness ==
    /\ execs[notFoundPage] = 1 /\ fullHTML[notFoundPage] = "html"
    /\ \E c \in Calls, d \in Calls :
          /\ c # d
          /\ rpc[c] = "done" /\ sp[c] = notFoundPage /\ resp[c].code = 404
          /\ rpc[d] = "done" /\ sp[d] = notFoundPage /\ resp[d].code = 404
    /\ \E c \in Calls :
          /\ rpc[c] = "done" /\ sp[c] = "page1"
          /\ execs["page1"] = 1 /\ fullHTML["page1"] = Empty
          /\ resp[c].code = 500

Spec == Init /\ [][Next]_vars

\* the cache with the deadlines of the fetches
TimeoutStart == CacheIdle /\ StoreIdle

TimeoutSpec == TimeoutStart /\ [][TimeoutNext]_vars

\* relink alone, on any pages
RelinkStart == CacheIdle /\ RelinkInit

RelinkSpec == RelinkStart /\ [][RelinkNext]_vars

\* two relinks and the edit handler, together
ChainStart == CacheIdle /\ ChainInit

ChainSpec == ChainStart /\ [][ChainNext]_vars

\* handleEditPost alone, on two posts and a draft
EditStart == CacheIdle /\ ChainInit

EditSpec == EditStart /\ [][EditNext]_vars

\* the cache among requests for the skipped names
SkipStart == CacheInit /\ StoreIdle

SkipSpec == SkipStart /\ [][SkipNext]_vars

\* sitePage.Render alone, three calls at a time
RenderStart == CacheIdle /\ StoreIdle

RenderSpec == RenderStart /\ [][RenderNext]_vars
====
